---- MODULE Spec2Model ----
(***************************************************************************)
(* Model of backend/app/main.py: the shared Response Cache (api_cache),    *)
(* the Entity Store (vessels_cache), the AIS stream ingestor and the HTTP  *)
(* handlers that read and write them.                                      *)
(*                                                                         *)
(* Time is counted in minutes.  Coordinates are integers counting          *)
(* thirtieths of a degree, so that the one-decimal rounding of             *)
(* get_cache_key has something to round and never meets an exact tie.      *)
(* A Python dict is a sequence of [key, ...] entries in insertion order,   *)
(* which is the order dict iteration, min() and list(d.items()) follow.    *)
(***************************************************************************)
EXTENDS Integers, Sequences, FiniteSets, TLC

VARIABLES
    now,            \* datetime.now(timezone.utc), in minutes
    api_cache,      \* dict cache_key -> (data, timestamp)
    vessels_cache,  \* dict str(mmsi) -> (vessel_data, timestamp)
    ais_state,      \* where connect_ais_stream stands
    aqi_inflight,   \* per box, the get_aqi_data coroutines suspended at
                    \* `await client.get(...)`
    AQICN_TOKEN,    \* whether os.getenv("AQICN_TOKEN") is set
    obs             \* what the last step did and returned (observation only)

vars == <<now, api_cache, vessels_cache, ais_state, aqi_inflight, AQICN_TOKEN,
          obs>>

----------------------------------------------------------------------------
(* Bounds of the model *)

\* The capacity of api_cache: 100 in the program, small here so that the
\* handlers fill it.
MAX_CACHE_SIZE == 2

\* How many get_aqi_data coroutines may be suspended at once.
MaxInflight == 2

(* Program constants *)

CACHE_TTL == 10
STALE_MINUTES == 30

(* Inputs *)

\* The instants at which the clock is read.  Between them lie an age of
\* exactly CACHE_TTL (0 to 10), a fresh age (30 to 35), an age of exactly
\* STALE_MINUTES (0 to 30) and a stale age (0 to 35).
Instants == <<0, 10, 30, 35>>

\* (min_lat, min_lon, max_lat, max_lon).  BoxA and BoxWide round to the
\* same one-decimal box; BoxInverted has min > max.
BoxA == <<1, 1, 2, 2>>
BoxWide == <<1, 1, 4, 4>>
BoxInverted == <<2, 2, 1, 1>>
Boxes == {BoxA, BoxWide, BoxInverted}

\* The boxes asked of the pull-based sources.
PullBoxes == {BoxA, BoxWide}

None == [type |-> "None"]
NoObs == [op |-> "none"]

----------------------------------------------------------------------------
(* Python dict, as a sequence of entries with distinct keys *)

DictKeys(d) == {d[i].key : i \in 1..Len(d)}

DictHas(d, k) == k \in DictKeys(d)

DictIndex(d, k) == CHOOSE i \in 1..Len(d) : d[i].key = k

DictGet(d, k) == d[DictIndex(d, k)]

\* del d[k]
DictDel(d, k) == SelectSeq(d, LAMBDA e : e.key # k)

\* A store that adds an entry without looking for the key.
DictSetAppend(d, e) == Append(d, e)

\* d[k] = v: an existing key keeps its place, a new key goes last.
DictSet(d, e) ==
    IF DictHas(d, e.key)
    THEN [i \in 1..Len(d) |-> IF d[i].key = e.key THEN e ELSE d[i]]
    ELSE Append(d, e)

----------------------------------------------------------------------------
(* Cache helpers *)

Abs(x) == IF x < 0 THEN -x ELSE x

RECURSIVE Sum(_, _)
Sum(f, S) ==
    IF S = {} THEN 0
    ELSE LET x == CHOOSE x \in S : TRUE IN f[x] + Sum(f, S \ {x})

\* f"{x:.1f}": the sign, then the magnitude rounded to tenths ("-0.0" for a
\* small negative x).  x counts thirtieths of a degree.
Fmt1(x) == [neg |-> x < 0, tenths |-> (Abs(x) + 1) \div 3]

\* The md5 digest of the formatted string, taken as injective: the key is
\* the formatted string's parts.
get_cache_key(prefix, box) ==
    <<prefix, Fmt1(box[1]), Fmt1(box[2]), Fmt1(box[3]), Fmt1(box[4])>>

\* A hit test that takes a cached answer without features for a miss.
TruthyWithFeatures(v) == v # None /\ v.features # <<>>

\* `if cached:` - a dict with keys is truthy, None is not.
Truthy(v) == v # None

\* An expiry test that also accepts an entry aged exactly CACHE_TTL.
IsFreshInclusive(timestamp, t) == t - timestamp <= CACHE_TTL

IsFresh(timestamp, t) == t - timestamp < CACHE_TTL

\* Returns the value and the store as the call leaves it.
get_cached_data(cache_key, cache_store, t) ==
    IF DictHas(cache_store, cache_key)
    THEN LET e == DictGet(cache_store, cache_key)
         IN  IF IsFresh(e.timestamp, t)
             THEN [ret |-> e.data, store |-> cache_store]
             ELSE [ret |-> None, store |-> DictDel(cache_store, cache_key)]
    ELSE [ret |-> None, store |-> cache_store]

\* An eviction that takes the most recently inserted entry instead.
NewestKey(cache_store) ==
    LET i == CHOOSE i \in 1..Len(cache_store) :
                 \A j \in 1..Len(cache_store) :
                     cache_store[i].timestamp >= cache_store[j].timestamp
    IN  cache_store[i].key

\* min(cache_store.keys(), key=timestamp): the first key, in iteration
\* order, whose timestamp is the smallest.
OldestKey(cache_store) ==
    LET i == CHOOSE i \in 1..Len(cache_store) :
                 /\ \A j \in 1..Len(cache_store) :
                        cache_store[i].timestamp <= cache_store[j].timestamp
                 /\ \A j \in 1..(i - 1) :
                        cache_store[j].timestamp > cache_store[i].timestamp
    IN  cache_store[i].key

\* A capacity test that lets the store grow one past MAX_CACHE_SIZE.
AtCapacityOffByOne(cache_store) == Len(cache_store) > MAX_CACHE_SIZE

AtCapacity(cache_store) == Len(cache_store) >= MAX_CACHE_SIZE

set_cached_data(cache_key, data, cache_store, t) ==
    LET evicted == IF AtCapacity(cache_store)
                   THEN DictDel(cache_store, OldestKey(cache_store))
                   ELSE cache_store
    IN  DictSet(evicted, [key |-> cache_key, data |-> data, timestamp |-> t])

FeatureCollection(features) ==
    [type |-> "FeatureCollection", features |-> features]

(* What a handler's step is observed to do: the response it returns and
   its use of the cache.  `removed` are the keys a Put took out of the
   store it was given, `overwrote` whether that store held the key.
   `calls` are the boxes the step sent to the upstream gateway, `res` what
   the gateway gave the step (None when the step received nothing). *)

RespHit(op, box, key, body) ==
    [op |-> op, box |-> box, key |-> key, status |-> 200, get |-> TRUE,
     hit |-> TRUE, put |-> FALSE, body |-> body, removed |-> {},
     overwrote |-> FALSE, stale_count |-> 0, calls |-> <<>>, res |-> None]

RespNoPut(op, get, box, key, body) ==
    [op |-> op, box |-> box, key |-> key, status |-> 200, get |-> get,
     hit |-> FALSE, put |-> FALSE, body |-> body, removed |-> {},
     overwrote |-> FALSE, stale_count |-> 0, calls |-> <<>>, res |-> None]

RespPut(op, get, box, key, body, before, after, stale_count) ==
    [op |-> op, box |-> box, key |-> key, status |-> 200, get |-> get,
     hit |-> FALSE, put |-> TRUE, body |-> body,
     removed |-> DictKeys(before) \ DictKeys(after),
     overwrote |-> DictHas(before, key),
     stale_count |-> stale_count, calls |-> <<>>, res |-> None]

----------------------------------------------------------------------------

(* The feed: what one inbound websocket message can be *)

\* Vessel 111 reports from outside BoxA (on two edges of BoxWide) with
\* speed and course, then from inside BoxA (on its upper edges) without
\* them; vessel 222 reports from inside BoxA.
GoodReports ==
    {[UserID |-> 111, Latitude |-> 4, Longitude |-> 1, Sog |-> 12, Cog |-> 90],
     [UserID |-> 111, Latitude |-> 2, Longitude |-> 2],
     [UserID |-> 222, Latitude |-> 2, Longitude |-> 2, Sog |-> 12, Cog |-> 90]}

\* Position reports missing a required field.
BrokenReports ==
    {[Latitude |-> 2, Longitude |-> 2, Sog |-> 12, Cog |-> 90],
     [UserID |-> 111, Longitude |-> 2],
     [UserID |-> 111, Latitude |-> 2]}

Undecodable == [undecodable |-> TRUE]

Messages ==
    {[MessageType |-> "PositionReport", Message |-> [PositionReport |-> d]] :
        d \in GoodReports \cup BrokenReports}
    \cup {[MessageType |-> "ShipStaticData", Message |-> [ShipStaticData |-> 0]],
          [Message |-> [PositionReport |->
              [UserID |-> 222, Latitude |-> 2, Longitude |-> 2,
               Sog |-> 12, Cog |-> 90]]],
          Undecodable}

\* json.loads(message_json) returns
Decodable(m) == m # Undecodable

\* A filter that looks for the payload and not at the message type.
HasPositionPayload(m) ==
    /\ "Message" \in DOMAIN m
    /\ "PositionReport" \in DOMAIN m.Message

\* message.get("MessageType") == "PositionReport"
IsPositionReport(m) ==
    /\ "MessageType" \in DOMAIN m
    /\ m.MessageType = "PositionReport"

\* data["UserID"], data["Latitude"], data["Longitude"] all succeed
HasRequired(data) ==
    {"UserID", "Latitude", "Longitude"} \subseteq DOMAIN data

\* A builder that keeps the stored speed and course when the report has none.
vessel_data_merge(data, t, old) ==
    [mmsi |-> data.UserID,
     speed |-> IF "Sog" \in DOMAIN data THEN data.Sog
               ELSE IF old = None THEN 0 ELSE old.speed,
     course |-> IF "Cog" \in DOMAIN data THEN data.Cog
                ELSE IF old = None THEN 0 ELSE old.course,
     lat |-> data.Latitude,
     lon |-> data.Longitude,
     last_updated |-> t]

\* The feature built from one report; `old` is the stored feature of the
\* same vessel (None when there is none), which the code does not read.
vessel_data(data, t, old) ==
    [mmsi |-> data.UserID,
     speed |-> IF "Sog" \in DOMAIN data THEN data.Sog ELSE 0,
     course |-> IF "Cog" \in DOMAIN data THEN data.Cog ELSE 0,
     lat |-> data.Latitude,
     lon |-> data.Longitude,
     last_updated |-> t]

\* vessels_cache[str(mmsi)] = (vessel_data, now)
upsert_vessel(store, data, t) ==
    LET old == IF DictHas(store, data.UserID)
               THEN DictGet(store, data.UserID).data ELSE None
    IN  DictSet(store, [key |-> data.UserID,
                        data |-> vessel_data(data, t, old),
                        timestamp |-> t])

----------------------------------------------------------------------------
(* Viewport filtering and the staleness sweep of get_vessels *)

\* A staleness test that also drops a record aged exactly the window.
IsStaleInclusive(timestamp, t) == t - timestamp >= STALE_MINUTES

IsStale(timestamp, t) == t - timestamp > STALE_MINUTES

\* min_lat <= lat <= max_lat and min_lon <= lon <= max_lon
InBox(lat, lon, box) ==
    /\ box[1] <= lat /\ lat <= box[3]
    /\ box[2] <= lon /\ lon <= box[4]

RECURSIVE scan_vessels(_, _, _, _, _)
\* The loop over list(vessels_cache.items()): `items` is the snapshot still
\* to visit, `store` the dict as deleted from so far, `filtered` the
\* features collected so far.
scan_vessels(items, store, filtered, box, t) ==
    IF items = <<>>
    THEN [store |-> store, filtered |-> filtered]
    ELSE LET e == Head(items)
         IN  IF IsStale(e.timestamp, t)
             THEN scan_vessels(Tail(items), DictDel(store, e.key),
                               filtered, box, t)
             ELSE IF InBox(e.data.lat, e.data.lon, box)
             THEN scan_vessels(Tail(items), store,
                               Append(filtered, e.data), box, t)
             ELSE scan_vessels(Tail(items), store, filtered, box, t)

----------------------------------------------------------------------------
(* The upstream gateways *)

\* What `await client.get(...)` and res.json() can give get_aqi_data.
AqiResponses ==
    {[kind |-> "timeout"],
     [kind |-> "error"],
     [kind |-> "json", status |-> "error", data |-> <<>>],
     [kind |-> "json", status |-> "ok",
      data |-> <<[aqi |-> "42", lat |-> 2, lon |-> 2],
                 [aqi |-> "-", lat |-> 4, lon |-> 1]>>]}

\* int(s) for the strings the upstream sends; int("-") raises ValueError.
IntOf == [s \in {"42"} |-> 42]

get_aqi_color(aqi) ==
    IF aqi <= 50 THEN "#2ecc71"
    ELSE IF aqi <= 100 THEN "#f1c40f"
    ELSE IF aqi <= 150 THEN "#e67e22"
    ELSE IF aqi <= 200 THEN "#e74c3c"
    ELSE IF aqi <= 300 THEN "#8e44ad"
    ELSE "#7d0505"

RECURSIVE aqi_features(_)
\* The loop over data["data"]: a station whose aqi is no number is skipped.
aqi_features(stations) ==
    IF stations = <<>>
    THEN <<>>
    ELSE LET st == Head(stations)
         IN  IF st.aqi \in DOMAIN IntOf
             THEN <<[aqi |-> IntOf[st.aqi],
                     color |-> get_aqi_color(IntOf[st.aqi]),
                     lat |-> st.lat, lon |-> st.lon]>>
                  \o aqi_features(Tail(stations))
             ELSE aqi_features(Tail(stations))

\* What openmeteo.weather_api can give get_waves: an exception, or one
\* response per grid point (wave_height in centimetres, or missing).
WaveResponses ==
    {[kind |-> "error"],
     [kind |-> "ok", data |-> <<[wave_height |-> <<120>>],
                                [wave_height |-> <<>>]>>]}

RECURSIVE wave_features(_)
\* The loop over the responses: a point without a wave height is skipped.
wave_features(responses) ==
    IF responses = <<>>
    THEN <<>>
    ELSE LET r == Head(responses)
         IN  IF r.wave_height = <<>>
             THEN wave_features(Tail(responses))
             ELSE <<[wave_height |-> r.wave_height[1]]>>
                  \o wave_features(Tail(responses))

\* `any(c in key_str for c in [word, WORD])` on a key that is an md5 hex
\* digest: the digest's letters are a to f, it spells neither word.
KeyMentions(key, word) == FALSE

RECURSIVE count_features(_, _, _)
\* health's loop over api_cache.items() for one of its two counters.
count_features(store, word, t) ==
    IF store = <<>>
    THEN 0
    ELSE LET e == Head(store)
             n == IF /\ IsFresh(e.timestamp, t)
                     /\ KeyMentions(e.key, word)
                  THEN Len(e.data.features) ELSE 0
         IN  n + count_features(Tail(store), word, t)

----------------------------------------------------------------------------

Init ==
    /\ now = 0
    /\ api_cache = <<>>
    /\ vessels_cache = <<>>
    /\ ais_state = "Connecting"
    /\ aqi_inflight = [b \in PullBoxes |-> 0]
    /\ AQICN_TOKEN \in BOOLEAN
    /\ obs = NoObs

\* The clock advances.
Tick ==
    /\ \E i \in 1..(Len(Instants) - 1) :
           /\ now = Instants[i]
           /\ now' = Instants[i + 1]
    /\ obs' = NoObs
    /\ UNCHANGED <<api_cache, vessels_cache, ais_state, aqi_inflight,
                   AQICN_TOKEN>>

(* connect_ais_stream *)

\* websockets.connect(uri) returns a connection, or raises.
ais_connect ==
    /\ ais_state = "Connecting"
    /\ \E ok \in BOOLEAN :
           /\ ais_state' = IF ok THEN "Subscribing" ELSE "Sleeping"
           /\ obs' = [op |-> "ais_connect", ok |-> ok]
    /\ UNCHANGED <<now, api_cache, vessels_cache, aqi_inflight, AQICN_TOKEN>>

\* websocket.send(subscribe_message) returns, or raises.
ais_subscribe ==
    /\ ais_state = "Subscribing"
    /\ \E ok \in BOOLEAN :
           /\ ais_state' = IF ok THEN "Streaming" ELSE "Sleeping"
           /\ obs' = [op |-> "ais_subscribe", ok |-> ok]
    /\ UNCHANGED <<now, api_cache, vessels_cache, aqi_inflight, AQICN_TOKEN>>

\* One turn of `async for message_json in websocket`.
ais_message ==
    /\ ais_state = "Streaming"
    /\ \E m \in Messages :
        /\ obs' = [op |-> "ais_message", msg |-> m,
                   overwrote |->
                       /\ Decodable(m) /\ IsPositionReport(m)
                       /\ HasRequired(m.Message.PositionReport)
                       /\ DictHas(vessels_cache,
                                  m.Message.PositionReport.UserID)]
        /\ IF ~Decodable(m)
           THEN \* json.loads raises: caught by `except Exception`
                /\ ais_state' = "Sleeping"
                /\ UNCHANGED vessels_cache
           ELSE IF IsPositionReport(m)
           THEN LET data == m.Message.PositionReport
                IN  IF HasRequired(data)
                    THEN /\ vessels_cache' = upsert_vessel(vessels_cache, data, now)
                         /\ UNCHANGED ais_state
                    ELSE \* KeyError: caught by `except Exception`
                         /\ ais_state' = "Sleeping"
                         /\ UNCHANGED vessels_cache
           ELSE UNCHANGED <<ais_state, vessels_cache>>
    /\ UNCHANGED <<now, api_cache, aqi_inflight, AQICN_TOKEN>>

\* The connection ends: a clean close ends the `async for` without raising
\* and the `while True` loop connects again; any other close raises.
ais_closed ==
    /\ ais_state = "Streaming"
    /\ \E clean \in BOOLEAN :
           /\ ais_state' = IF clean THEN "Connecting" ELSE "Sleeping"
           /\ obs' = [op |-> "ais_closed", clean |-> clean]
    /\ UNCHANGED <<now, api_cache, vessels_cache, aqi_inflight, AQICN_TOKEN>>

\* A loop with a retry limit: after the delay it gives up.
ais_wake_gives_up ==
    /\ ais_state = "Sleeping"
    /\ ais_state' = "Stopped"
    /\ obs' = [op |-> "ais_wake"]
    /\ UNCHANGED <<now, api_cache, vessels_cache, aqi_inflight, AQICN_TOKEN>>

\* asyncio.sleep(5) returns.
ais_wake ==
    /\ ais_state = "Sleeping"
    /\ ais_state' = "Connecting"
    /\ obs' = [op |-> "ais_wake"]
    /\ UNCHANGED <<now, api_cache, vessels_cache, aqi_inflight, AQICN_TOKEN>>

(* lifespan *)

\* A shutdown whose CancelledError the loop's handler catches as it catches
\* a connection error: the loop sleeps and goes on.
task_cancel_absorbed ==
    /\ ais_state \in {"Connecting", "Subscribing", "Streaming", "Sleeping"}
    /\ ais_state' = "Sleeping"
    /\ obs' = [op |-> "task_cancel", at |-> ais_state]
    /\ UNCHANGED <<now, api_cache, vessels_cache, aqi_inflight, AQICN_TOKEN>>

\* task.cancel() at shutdown: CancelledError is raised at the await where
\* connect_ais_stream is suspended (websockets.connect, websocket.send, the
\* pending receive of `async for`, or asyncio.sleep).  It is a
\* BaseException, `except Exception` does not catch it, and the coroutine
\* ends.
task_cancel ==
    /\ ais_state \in {"Connecting", "Subscribing", "Streaming", "Sleeping"}
    /\ ais_state' = "Cancelled"
    /\ obs' = [op |-> "task_cancel", at |-> ais_state]
    /\ UNCHANGED <<now, api_cache, vessels_cache, aqi_inflight, AQICN_TOKEN>>

\* The server answers requests until its shutdown, which cancels the task.
Serving == ais_state # "Cancelled"

(* HTTP handlers *)

\* GET /api/vessels
get_vessels ==
    /\ Serving
    /\ \E box \in Boxes :
        LET cache_key == get_cache_key("vessels", box)
            got == get_cached_data(cache_key, api_cache, now)
        IN  IF Truthy(got.ret)
            THEN /\ api_cache' = got.store
                 /\ obs' = RespHit("vessels", box, cache_key, got.ret)
                 /\ UNCHANGED vessels_cache
            ELSE LET scan == scan_vessels(vessels_cache, vessels_cache,
                                          <<>>, box, now)
                     result == FeatureCollection(scan.filtered)
                     after == set_cached_data(cache_key, result,
                                              got.store, now)
                 IN  /\ vessels_cache' = scan.store
                     /\ api_cache' = after
                     /\ obs' = RespPut("vessels", TRUE, box, cache_key,
                                       result, got.store, after,
                                       Len(vessels_cache) - Len(scan.store))
    /\ UNCHANGED <<now, ais_state, aqi_inflight, AQICN_TOKEN>>

\* GET /
health ==
    /\ Serving
    /\ obs' = [op |-> "health",
               vessels_streaming |-> Len(vessels_cache),
               aqi_stations |-> count_features(api_cache, "aqi", now),
               wave_points |-> count_features(api_cache, "wave", now),
               total_entries |-> Len(api_cache),
               aisstream_connected |-> Len(vessels_cache) > 0]
    /\ UNCHANGED <<now, api_cache, vessels_cache, ais_state, aqi_inflight,
                   AQICN_TOKEN>>

\* The number of suspended get_aqi_data coroutines.
Inflight(f) == Sum(f, DOMAIN f)

\* A credential test that never finds the credential missing.
TokenMissingNever(token) == FALSE

\* `if not AQICN_TOKEN:`
TokenMissing(token) == ~token

\* GET /api/aqi, up to `await client.get(...)`.
aqi_start ==
    /\ Serving
    /\ \E box \in PullBoxes :
        IF TokenMissing(AQICN_TOKEN)
        THEN /\ obs' = [op |-> "aqi_error", box |-> box, status |-> 500]
             /\ UNCHANGED <<api_cache, aqi_inflight>>
        ELSE LET cache_key == get_cache_key("aqi", box)
                 got == get_cached_data(cache_key, api_cache, now)
             IN  IF Truthy(got.ret)
                 THEN /\ api_cache' = got.store
                      /\ obs' = RespHit("aqi", box, cache_key, got.ret)
                      /\ UNCHANGED aqi_inflight
                 ELSE /\ Inflight(aqi_inflight) < MaxInflight
                      /\ aqi_inflight' =
                             [aqi_inflight EXCEPT ![box] = @ + 1]
                      /\ api_cache' = got.store
                      /\ obs' = [RespNoPut("aqi_fetch", TRUE, box,
                                            cache_key, None)
                                  EXCEPT !.calls = <<box>>]
    /\ UNCHANGED <<now, vessels_cache, ais_state, AQICN_TOKEN>>

\* GET /api/aqi, from the return of `await client.get(...)` to the response.
aqi_finish ==
    /\ Serving
    /\ \E box \in PullBoxes, res \in AqiResponses :
        /\ aqi_inflight[box] > 0
        /\ aqi_inflight' = [aqi_inflight EXCEPT ![box] = @ - 1]
        /\ LET cache_key == get_cache_key("aqi", box)
           IN  IF res.kind # "json"
               THEN \* httpx.TimeoutException, or any other exception
                    /\ obs' = [RespNoPut("aqi", FALSE, box, cache_key,
                                         FeatureCollection(<<>>))
                               EXCEPT !.res = res]
                    /\ UNCHANGED api_cache
               ELSE LET result == IF res.status # "ok"
                                  THEN FeatureCollection(<<>>)
                                  ELSE FeatureCollection(aqi_features(res.data))
                        after == set_cached_data(cache_key, result,
                                                 api_cache, now)
                    IN  /\ api_cache' = after
                        /\ obs' = [RespPut("aqi", FALSE, box, cache_key,
                                           result, api_cache, after, 0)
                                   EXCEPT !.res = res]
    /\ UNCHANGED <<now, vessels_cache, ais_state, AQICN_TOKEN>>

\* GET /api/waves: openmeteo.weather_api is a blocking call, the handler
\* runs to its response without yielding.
get_waves ==
    /\ Serving
    /\ \E box \in PullBoxes, res \in WaveResponses :
        LET cache_key == get_cache_key("waves", box)
            got == get_cached_data(cache_key, api_cache, now)
        IN  IF Truthy(got.ret)
            THEN /\ api_cache' = got.store
                 /\ obs' = RespHit("waves", box, cache_key, got.ret)
            ELSE IF res.kind # "ok"
            THEN /\ api_cache' = got.store
                 /\ obs' = [RespNoPut("waves", TRUE, box, cache_key,
                                      FeatureCollection(<<>>))
                            EXCEPT !.calls = <<box>>, !.res = res]
            ELSE LET result == FeatureCollection(wave_features(res.data))
                     after == set_cached_data(cache_key, result,
                                              got.store, now)
                 IN  /\ api_cache' = after
                     /\ obs' = [RespPut("waves", TRUE, box, cache_key,
                                        result, got.store, after, 0)
                                EXCEPT !.calls = <<box>>, !.res = res]
    /\ UNCHANGED <<now, vessels_cache, ais_state, aqi_inflight, AQICN_TOKEN>>

----------------------------------------------------------------------------
(* Specifications *)

Next ==
    \/ Tick
    \/ ais_connect
    \/ ais_subscribe
    \/ ais_message
    \/ ais_closed
    \/ ais_wake
    \/ task_cancel
    \/ get_vessels
    \/ health
    \/ aqi_start
    \/ aqi_finish
    \/ get_waves

\* The whole program.
Spec == Init /\ [][Next]_vars

\* The ingestor and the handlers that read the Entity Store.  The AQI and
\* wave handlers, which never touch vessels_cache, are left out.
InitStore ==
    /\ Init
    /\ AQICN_TOKEN

NextStore ==
    \/ Tick
    \/ ais_connect
    \/ ais_subscribe
    \/ ais_message
    \/ ais_closed
    \/ ais_wake
    \/ get_vessels
    \/ health

SpecStore == InitStore /\ [][NextStore]_vars

\* Every handler that reads or writes api_cache, over a feed that is
\* streaming and has delivered one report, of vessel 222, at instant 0.
InitCache ==
    /\ now = 0
    /\ api_cache = <<>>
    /\ \E d \in {r \in GoodReports : r.UserID = 222} :
           vessels_cache = upsert_vessel(<<>>, d, 0)
    /\ ais_state = "Streaming"
    /\ aqi_inflight = [b \in PullBoxes |-> 0]
    /\ AQICN_TOKEN = TRUE
    /\ obs = NoObs

NextCache ==
    \/ Tick
    \/ get_vessels
    \/ aqi_start
    \/ aqi_finish
    \/ get_waves

SpecCache == InitCache /\ [][NextCache]_vars

\* The pull-based handlers, with the credential of the AQI source set or
\* not set.
NextPull ==
    \/ Tick
    \/ aqi_start
    \/ aqi_finish
    \/ get_waves

SpecPull == Init /\ [][NextPull]_vars

\* get_cache_key as a function of its arguments: the prefixes the handlers
\* pass, and boxes whose coordinates lie just below zero, just above zero
\* and on both sides of 0.1 degree.
Prefixes == {"vessels", "aqi", "waves"}

KeyBoxes == {<<a, b, c, 4>> : a, b \in {-1, 1}, c \in {2, 4}}

\* Two calls of get_cache_key.
key_for ==
    /\ \E p1, p2 \in Prefixes, b1, b2 \in KeyBoxes :
           obs' = [op |-> "key_for",
                   prefix1 |-> p1, box1 |-> b1, key1 |-> get_cache_key(p1, b1),
                   prefix2 |-> p2, box2 |-> b2, key2 |-> get_cache_key(p2, b2)]
    /\ UNCHANGED <<now, api_cache, vessels_cache, ais_state, aqi_inflight,
                   AQICN_TOKEN>>

SpecKey == Init /\ [][key_for]_vars

\* The ingestor from start-up to shutdown.
NextIngest ==
    \/ Tick
    \/ ais_connect
    \/ ais_subscribe
    \/ ais_message
    \/ ais_closed
    \/ ais_wake
    \/ task_cancel

SpecIngest == InitStore /\ [][NextIngest]_vars

\* websockets.connect and websocket.send return or raise, and
\* asyncio.sleep(5) returns: the event loop resumes the coroutine.  A
\* connection that streams may stay open for ever.
LiveIngest ==
    /\ SpecIngest
    /\ WF_vars(ais_connect)
    /\ WF_vars(ais_subscribe)
    /\ WF_vars(ais_wake)

----------------------------------------------------------------------------
(* Properties *)

\* The step returned a response of a cached endpoint.
IsResponse(o) == o.op \in {"vessels", "aqi", "waves"}

\* The step called get_cached_data.
DidGet(o) == o.op \in {"vessels", "aqi", "waves", "aqi_fetch"} /\ o.get

DidHit(o) == IsResponse(o) /\ o.hit

\* The step called set_cached_data(o.key, o.body, ...).
DidPut(o) == IsResponse(o) /\ o.put

Entries(d) == {d[i] : i \in 1..Len(d)}

PutEntry(o, t) == [key |-> o.key, data |-> o.body, timestamp |-> t]

\* C1: in every reachable state api_cache holds at most MAX_CACHE_SIZE
\* entries and no two of its entries have the same key.
C1_CacheBounded ==
    /\ Len(api_cache) <= MAX_CACHE_SIZE
    /\ \A i, j \in 1..Len(api_cache) :
           i # j => api_cache[i].key # api_cache[j].key

\* A Put into a full cache has just evicted an entry.
C1_Witness ==
    /\ DidPut(obs)
    /\ obs.removed # {}
    /\ Len(api_cache) = MAX_CACHE_SIZE

C3_NoEvictionOnOverwrite ==
    (DidPut(obs) /\ obs.overwrote) => obs.removed = {}

\* C4: every entry of the cache is as the most recent Put of its key wrote
\* it (a step adds or changes an entry only by a Put of that key, payload
\* and instant); a Get of a key whose entry is younger than CACHE_TTL
\* returns that entry's payload and changes nothing; a Get of a key whose
\* entry has reached CACHE_TTL reports absent and removes that entry only;
\* a Get of a key that is not present reports absent and changes nothing.
C4_GetFreshOrAbsent ==
    [][/\ \A e \in Entries(api_cache') :
              \/ e \in Entries(api_cache)
              \/ DidPut(obs') /\ e = PutEntry(obs', now)
       /\ DidGet(obs') =>
              LET k == obs'.key
                  present == DictHas(api_cache, k)
                  fresh == /\ present
                           /\ now - DictGet(api_cache, k).timestamp < CACHE_TTL
                  afterGet == IF present /\ ~fresh
                              THEN DictDel(api_cache, k) ELSE api_cache
              IN  /\ fresh => /\ DidHit(obs')
                              /\ obs'.body = DictGet(api_cache, k).data
                              /\ api_cache' = api_cache
                  /\ ~fresh => ~obs'.hit
                  /\ (~fresh /\ ~obs'.put) => api_cache' = afterGet
                  /\ (~fresh /\ obs'.put /\ present) =>
                         api_cache' = Append(afterGet, PutEntry(obs', now))
      ]_vars

\* A Get has just returned the payload of an entry inserted at an earlier
\* instant.
C4_Witness ==
    /\ DidHit(obs)
    /\ obs.body.features # <<>>
    /\ \E e \in Entries(api_cache) :
           e.key = obs.key /\ e.timestamp < now

\* C5: a vessels query never reads an entry of api_cache and never writes
\* one: api_cache is the same before and after it, and its answer is not a
\* cached one.
C5_VesselsBypassCache ==
    [][obs'.op = "vessels" => (api_cache' = api_cache /\ ~obs'.hit)]_vars

\* C6: the answer of a vessels query holds only records that are in
\* vessels_cache and within the box asked for, holds every record of
\* vessels_cache that is not stale and within that box, and is empty for an
\* inverted box.
C6_ViewportExact ==
    obs.op = "vessels" =>
        LET box == obs.box
            feats == obs.body.features
            inside(d) == /\ box[1] <= d.lat /\ d.lat <= box[3]
                         /\ box[2] <= d.lon /\ d.lon <= box[4]
        IN  /\ \A i \in 1..Len(feats) :
                   /\ inside(feats[i])
                   /\ \E e \in Entries(vessels_cache) : e.data = feats[i]
            /\ \A e \in Entries(vessels_cache) :
                   (now - e.timestamp <= STALE_MINUTES /\ inside(e.data))
                       => \E i \in 1..Len(feats) : feats[i] = e.data
            /\ (box[1] > box[3] \/ box[2] > box[4]) => feats = <<>>

\* C7: the answer of a vessels query holds no vessel last reported more
\* than STALE_MINUTES before the query.
C7_NoStaleInAnswer ==
    obs.op = "vessels" =>
        \A i \in 1..Len(obs.body.features) :
            now - obs.body.features[i].last_updated <= STALE_MINUTES

\* The step processed a position report that has its required fields.
IsReportStep(o) ==
    /\ o.op = "ais_message"
    /\ Decodable(o.msg)
    /\ IsPositionReport(o.msg)
    /\ HasRequired(o.msg.Message.PositionReport)

\* C8: vessels_cache holds at most one record per id; a step changes or
\* adds a record only by processing a report of that id; after a report is
\* processed the record of its id has the report's position, its speed and
\* course (zero when the report has none) and the instant of processing,
\* and the records of the other ids are as they were.
C8_LastWriterWins ==
    [][/\ \A i, j \in 1..Len(vessels_cache') :
              i # j => vessels_cache'[i].key # vessels_cache'[j].key
       /\ \A e \in Entries(vessels_cache') :
              \/ e \in Entries(vessels_cache)
              \/ /\ IsReportStep(obs')
                 /\ e.key = obs'.msg.Message.PositionReport.UserID
       /\ IsReportStep(obs') =>
              LET d == obs'.msg.Message.PositionReport
                  rec == [key |-> d.UserID,
                          timestamp |-> now,
                          data |-> [mmsi |-> d.UserID,
                                    speed |-> IF "Sog" \in DOMAIN d
                                              THEN d.Sog ELSE 0,
                                    course |-> IF "Cog" \in DOMAIN d
                                               THEN d.Cog ELSE 0,
                                    lat |-> d.Latitude,
                                    lon |-> d.Longitude,
                                    last_updated |-> now]]
              IN  /\ rec \in Entries(vessels_cache')
                  /\ \A e \in Entries(vessels_cache) :
                         e.key # d.UserID => e \in Entries(vessels_cache')
      ]_vars

\* A report without speed and course has just replaced the record of a
\* vessel that was already stored, beside the record of another vessel.
C8_Witness ==
    /\ IsReportStep(obs)
    /\ obs.overwrote
    /\ "Sog" \notin DOMAIN obs.msg.Message.PositionReport
    /\ Len(vessels_cache) = 2

\* C9: the sweep that get_vessels runs on a cache miss at instant now
\* leaves exactly the records with now - timestamp <= STALE_MINUTES, each
\* as it was and in the same order, and a second sweep at the same instant
\* removes nothing.
C9_SweepRemovesExactlyStale ==
    [][(obs'.op = "vessels" /\ ~obs'.hit) =>
          /\ \A e \in Entries(vessels_cache') :
                 now - e.timestamp <= STALE_MINUTES
          /\ vessels_cache' =
                 SelectSeq(vessels_cache,
                           LAMBDA e : now - e.timestamp <= STALE_MINUTES)
          /\ scan_vessels(vessels_cache', vessels_cache', <<>>,
                          obs'.box, now).store = vessels_cache'
      ]_vars

\* A sweep has just removed a stale record and kept another record.
C9_Witness ==
    /\ obs.op = "vessels"
    /\ ~obs.hit
    /\ obs.stale_count > 0
    /\ vessels_cache # <<>>

\* C10: the vessel count the health endpoint reports is the number of
\* records of vessels_cache that are not stale.
C10_HealthCountsLive ==
    obs.op = "health" =>
        obs.vessels_streaming =
            Cardinality({i \in 1..Len(vessels_cache) :
                             now - vessels_cache[i].timestamp <= STALE_MINUTES})

----------------------------------------------------------------------------
(* Pull-based sources *)

\* The step belongs to a request of a pull-based source.
IsPull(o) == o.op \in {"aqi", "waves", "aqi_fetch"}

\* The cache key prefix of the source the step belongs to.
PrefixOf(o) == IF o.op = "waves" THEN "waves" ELSE "aqi"

\* The gateway gave the step a well-formed answer that reports success.
GatewayOk(res) ==
    /\ res # None
    /\ \/ res.kind = "ok"
       \/ res.kind = "json" /\ res.status = "ok"

\* The gateway gave the step a failure: a timeout, a transport error, or
\* an answer that does not report success.
GatewayFailed(res) == res # None /\ ~GatewayOk(res)

\* C11: a request of a pull-based source whose key has an entry younger
\* than CACHE_TTL returns that entry's payload, sends nothing to the
\* gateway and leaves the cache as it was; a request that misses sends the
\* gateway one call, with the box as it was asked; when the gateway's
\* answer arrives the handler calls the gateway no more, stores its payload
\* under the key of the rounded box and returns the payload it stored.
C11_PullThroughCache ==
    [][IsPull(obs') =>
          LET k == obs'.key
              fresh == /\ DictHas(api_cache, k)
                       /\ now - DictGet(api_cache, k).timestamp < CACHE_TTL
          IN  /\ k = get_cache_key(PrefixOf(obs'), obs'.box)
              /\ (DidGet(obs') /\ fresh) =>
                     /\ DidHit(obs')
                     /\ obs'.body = DictGet(api_cache, k).data
                     /\ obs'.calls = <<>>
                     /\ obs'.res = None
                     /\ aqi_inflight' = aqi_inflight
                     /\ api_cache' = api_cache
              /\ (DidGet(obs') /\ ~fresh) =>
                     /\ ~obs'.hit
                     /\ obs'.calls = <<obs'.box>>
              /\ ~DidGet(obs') => obs'.calls = <<>>
              /\ GatewayOk(obs'.res) =>
                     /\ DidPut(obs')
                     /\ DictHas(api_cache', k)
                     /\ DictGet(api_cache', k) = PutEntry(obs', now)
      ]_vars

\* A waves request has just been answered from the cache with a payload
\* stored at an earlier instant, while the cache also holds the stations
\* an AQI request fetched and stored.
C11_Witness ==
    /\ obs.op = "waves"
    /\ obs.hit
    /\ obs.body.features # <<>>
    /\ \E e \in Entries(api_cache) : e.key = obs.key /\ e.timestamp < now
    /\ \E e \in Entries(api_cache) :
           e.key[1] = "aqi" /\ e.data.features # <<>>

\* C12: a request of a pull-based source whose gateway call fails (a
\* timeout, a transport error, an answer that does not report success)
\* returns an empty feature collection with status 200 and creates or
\* changes no entry of the cache.
C12_FailureLeavesCache ==
    [][(IsPull(obs') /\ GatewayFailed(obs'.res)) =>
          /\ obs'.status = 200
          /\ obs'.body = FeatureCollection(<<>>)
          /\ ~obs'.put
          /\ Entries(api_cache') \subseteq Entries(api_cache)
      ]_vars

\* The step belongs to an AQI request.
IsAqi(o) == o.op \in {"aqi", "aqi_fetch", "aqi_error"}

\* C13: an AQI request ends with status 500 exactly when AQICN_TOKEN is
\* not set.  Without the credential every AQI request is answered 500 in
\* one step that leaves api_cache as it was and starts no upstream call;
\* with the credential no AQI request is answered with an error status,
\* whatever the gateway gives.
C13_ErrorIffNoToken ==
    [][IsAqi(obs') =>
          /\ obs'.status \in {200, 500}
          /\ obs'.status = 500 <=> ~AQICN_TOKEN
          /\ ~AQICN_TOKEN =>
                 /\ obs'.op = "aqi_error"
                 /\ api_cache' = api_cache
                 /\ aqi_inflight' = aqi_inflight
      ]_vars

\* Without the credential an AQI request has just been refused while the
\* cache holds the answer of another source.
C13_Witness ==
    /\ ~AQICN_TOKEN
    /\ obs.op = "aqi_error"
    /\ obs.status = 500
    /\ api_cache # <<>>

----------------------------------------------------------------------------
(* Cache keys *)

\* x rounded to one decimal, as a number of tenths: the values just below
\* and just above zero both round to 0.
Round1(x) == IF x < 0 THEN -((-x + 1) \div 3) ELSE (x + 1) \div 3

\* C14: for one prefix, two boxes that round, coordinate by coordinate, to
\* the same tenths of a degree have the same key; for two different
\* prefixes the keys differ, whatever the boxes.
C14_KeyOfRoundedBox ==
    obs.op = "key_for" =>
        /\ ( /\ obs.prefix1 = obs.prefix2
             /\ \A i \in 1..4 : Round1(obs.box1[i]) = Round1(obs.box2[i]) )
               => obs.key1 = obs.key2
        /\ obs.prefix1 # obs.prefix2 => obs.key1 # obs.key2

----------------------------------------------------------------------------
(* The ingestor *)

\* The message of the step is a position report by its type.
TypedPositionReport(m) ==
    /\ "MessageType" \in DOMAIN m
    /\ m.MessageType = "PositionReport"

\* The message of the step cannot be stored: it is not decodable, is not a
\* position report, or is a position report without its id, latitude or
\* longitude.
Discardable(m) ==
    \/ ~TypedPositionReport(m)
    \/ "UserID" \notin DOMAIN m.Message.PositionReport
    \/ "Latitude" \notin DOMAIN m.Message.PositionReport
    \/ "Longitude" \notin DOMAIN m.Message.PositionReport

\* C15: a message that cannot be stored leaves the ingestor streaming on
\* the connection it has: it does not end the stream and causes no
\* reconnect.
C15_MalformedKeepsStreaming ==
    [][(obs'.op = "ais_message" /\ Discardable(obs'.msg))
           => ais_state' = "Streaming"]_vars

\* C16: a message that cannot be stored leaves vessels_cache exactly as
\* it was.
C16_MalformedLeavesStore ==
    [][(obs'.op = "ais_message" /\ Discardable(obs'.msg))
           => vessels_cache' = vessels_cache]_vars

\* A position report of vessel 111 without its latitude has just been
\* processed while vessels_cache holds the records of vessels 111 and 222.
C16_Witness ==
    /\ obs.op = "ais_message"
    /\ TypedPositionReport(obs.msg)
    /\ "Latitude" \notin DOMAIN obs.msg.Message.PositionReport
    /\ "UserID" \in DOMAIN obs.msg.Message.PositionReport
    /\ DictKeys(vessels_cache) = {111, 222}

\* C17: the ingestor opens a connection only at its start and when the
\* reconnect delay has elapsed: every step that brings it to a new
\* connection attempt is the return of the sleep.
C17_DelayBeforeReconnect ==
    [][(ais_state' = "Connecting" /\ ais_state # "Connecting")
           => (ais_state = "Sleeping" /\ obs'.op = "ais_wake")]_vars

\* The steps of connect_ais_stream.
IngestorStep ==
    \/ ais_connect
    \/ ais_subscribe
    \/ ais_message
    \/ ais_closed
    \/ ais_wake

\* C18: until it is cancelled the ingestor always has a next step, and
\* whenever it waits after a failure it goes on to a new connection
\* attempt unless it is cancelled first; a connection is subscribed to
\* once, straight after it is opened, and messages are consumed only on a
\* subscribed connection.
C18_RetriesForever ==
    /\ [](ais_state # "Cancelled" => ENABLED IngestorStep)
    /\ [](ais_state = "Sleeping"
             => <>(ais_state \in {"Connecting", "Cancelled"}))
    /\ [][/\ obs'.op = "ais_message" => ais_state = "Streaming"
          /\ obs'.op = "ais_subscribe" =>
                 (ais_state = "Subscribing" /\ ais_state' # "Subscribing")
          /\ (ais_state' = "Subscribing" /\ ais_state # "Subscribing") =>
                 (ais_state = "Connecting" /\ obs'.op = "ais_connect")
          /\ (ais_state' = "Streaming" /\ ais_state # "Streaming") =>
                 (ais_state = "Subscribing" /\ obs'.op = "ais_subscribe")
         ]_vars

\* The ingestor has just started a new connection attempt after a delay,
\* having stored reports on an earlier connection.
C18_Witness ==
    /\ obs.op = "ais_wake"
    /\ ais_state = "Connecting"
    /\ vessels_cache # <<>>

\* C19: the cancellation at shutdown ends the ingestor in whichever state
\* it is, and once ended the ingestor takes no step: it stays ended and
\* vessels_cache is not written.
C19_CancelTerminates ==
    [][/\ obs'.op = "task_cancel" => ais_state' = "Cancelled"
       /\ ais_state = "Cancelled" =>
              /\ ais_state' = "Cancelled"
              /\ vessels_cache' = vessels_cache
              /\ obs'.op = "none"
      ]_vars

\* The ingestor has just been cancelled while it waited for the next
\* message of a connection on which it had stored reports.
C19_Witness ==
    /\ obs.op = "task_cancel"
    /\ obs.at = "Streaming"
    /\ ais_state = "Cancelled"
    /\ vessels_cache # <<>>

----------------------------------------------------------------------------
(* Concurrent requests *)

\* The entries of d under key k.
EntriesOf(d, k) == {i \in 1..Len(d) : d[i].key = k}

\* C20: an AQI request that finds no fresh entry for its key calls the
\* gateway, also while another request for that key is waiting for the
\* gateway, so two such requests call it twice; after every Put, in every
\* interleaving, the cache holds one entry for the key that was put, with
\* the payload and the instant of that Put, at most one entry for every
\* other key, and no more than MAX_CACHE_SIZE entries.
C20_NotSingleFlight ==
    [][/\ (obs'.op \in {"aqi", "aqi_fetch"} /\ DidGet(obs')
              /\ aqi_inflight[obs'.box] > 0 /\ ~obs'.hit) =>
              /\ obs'.op = "aqi_fetch"
              /\ obs'.calls = <<obs'.box>>
              /\ aqi_inflight'[obs'.box] = aqi_inflight[obs'.box] + 1
       /\ DidPut(obs') =>
              /\ Cardinality(EntriesOf(api_cache', obs'.key)) = 1
              /\ PutEntry(obs', now) \in Entries(api_cache')
              /\ \A k \in DictKeys(api_cache') :
                     Cardinality(EntriesOf(api_cache', k)) = 1
              /\ Len(api_cache') <= MAX_CACHE_SIZE
      ]_vars

\* Of two AQI requests that both missed, the second to get its answer has
\* just put it over the entry the first one stored.
C20_Witness ==
    /\ obs.op = "aqi"
    /\ DidPut(obs)
    /\ obs.overwrote
    /\ obs.body.features # <<>>
    /\ PutEntry(obs, now) \in Entries(api_cache)

====
